---- MODULE Spec2Model ----
(***************************************************************************)
(* Model of the time sheet generator (time_sheets/generator.py) and of its *)
(* command line caller (cli.py).                                           *)
(*                                                                         *)
(* Hours are exact decimals counted in hundredths of an hour: 50 units is  *)
(* half an hour and 1 unit is the 0.01 tolerance of                        *)
(* _verify_total_allocation.  A quotient such as remaining_hours /         *)
(* days_remaining is kept as a fraction (numerator, denominator) until it  *)
(* is rounded, so rounding is exact, ties included.                        *)
(*                                                                         *)
(* An optional value (Python's None or a value) is a sequence: <<>> is     *)
(* None and <<v>> is the value v.                                          *)
(***************************************************************************)
EXTENDS Integers, Sequences, FiniteSets, TLC

(***************************************************************************)
(* Bounds of the checked inputs.                                           *)
(***************************************************************************)
MaxMonth == 1
MaxHoursK == 20
MaxLeaveList == 2
MaxSmallLeave == 2
MaxLeave == 23

(* Units per hour: one unit is the 0.01 of _verify_total_allocation. *)
UnitsPerHour == 100
HalfHour == UnitsPerHour \div 2
Tolerance == UnitsPerHour \div 100

None == <<>>
Some(v) == <<v>>
IsNone(o) == o = <<>>
Val(o) == o[1]

(* hours_worked: multiples of 0.05 h from -0.10 h up to MaxHoursK * 0.05 h. *)
HoursValues == { 5 * k : k \in (-2)..MaxHoursK }
(* max_hours_worked as given: 0.25 (a tie, rounded to 0), 0.70 (rounded   *)
(* down to 0.50), 1.30 h (rounded up to 1.50).                             *)
MaxHoursValues == {25, 70, 130}
Months == 1..MaxMonth
Years == {2024}
NowYears == {2025}
(* Leave counts: none or few days, and all but a few business days. *)
LeaveCounts == (0..MaxSmallLeave) \cup (21..MaxLeave)
(* Leave days of a direct call: below the month, business days or weekend *)
(* days according to the month; of --leave-days: also beyond the month.   *)
LeaveDayValues == {0, 1, 6}
CliDayValues == {1, 32}

(***************************************************************************)
(* Calendar arithmetic (Python's calendar and datetime modules, proleptic  *)
(* Gregorian calendar, Monday = 0).                                        *)
(***************************************************************************)
isleap(y) == (y % 4 = 0) /\ ((y % 100 # 0) \/ (y % 400 = 0))

mdays(m) == <<31, 28, 31, 30, 31, 30, 31, 31, 30, 31, 30, 31>>[m]

DaysInMonth(y, m) == IF m = 2 /\ isleap(y) THEN 29 ELSE mdays(m)

RECURSIVE DaysBeforeMonth(_, _)
DaysBeforeMonth(y, m) ==
    IF m = 1 THEN 0 ELSE DaysBeforeMonth(y, m - 1) + DaysInMonth(y, m - 1)

DaysBeforeYear(y) ==
    365 * (y - 1) + ((y - 1) \div 4) - ((y - 1) \div 100) + ((y - 1) \div 400)

toordinal(y, m, d) == DaysBeforeYear(y) + DaysBeforeMonth(y, m) + d

weekday(y, m, d) == (toordinal(y, m, d) + 6) % 7

(* calendar.monthcalendar flattened: the weeks of the month, seven cells   *)
(* each, a cell holding its column (0 = Monday) and its day number, 0 for  *)
(* a cell outside the month.                                               *)
monthcalendar(y, m) ==
    LET first == weekday(y, m, 1)
        ndays == DaysInMonth(y, m)
        nweeks == (first + ndays + 6) \div 7
    IN  [ k \in 1..(7 * nweeks) |->
            LET d == k - first
            IN  [ day_idx |-> (k - 1) % 7,
                  day |-> IF d >= 1 /\ d <= ndays THEN d ELSE 0 ] ]

IsBusinessCell(c) == c.day # 0 /\ c.day_idx < 5

_calculate_business_days(m, y) ==
    LET cells == SelectSeq(monthcalendar(y, m), IsBusinessCell)
    IN  [ i \in 1..Len(cells) |-> cells[i].day ]

(***************************************************************************)
(* Sequences.                                                              *)
(***************************************************************************)
Range(s) == { s[i] : i \in 1..Len(s) }

RECURSIVE SumHours(_)
SumHours(s) == IF s = <<>> THEN 0 ELSE s[1].hours + SumHours(Tail(s))

SeqsUpTo(S, n) == UNION { [1..k -> S] : k \in 0..n }

(***************************************************************************)
(* round_to_half_hour on the fraction num / den of units (den > 0):        *)
(* round(hours * 2) / 2 with Python's round, ties to the even integer.     *)
(***************************************************************************)
(* Truncation (int) in place of round. *)
FloorRound(num, den) == num \div den

PyRound(num, den) ==
    LET q == num \div den
        r == num % den
    IN  IF 2 * r < den THEN q
        ELSE IF 2 * r > den THEN q + 1
        ELSE IF q % 2 = 0 THEN q ELSE q + 1

(* A rounding to whole hours. *)
Bad_round_to_half_hour(num, den) == UnitsPerHour * PyRound(num, den * UnitsPerHour)

round_to_half_hour(num, den) == HalfHour * PyRound(2 * num, den * UnitsPerHour)

(***************************************************************************)
(* _format_date: f"{year}-{month:02d}-{day:02d}" as a sequence of          *)
(* one-character strings.                                                  *)
(***************************************************************************)
DigitChar(d) == <<"0", "1", "2", "3", "4", "5", "6", "7", "8", "9">>[d + 1]

RECURSIVE Decimal(_)
Decimal(n) == IF n < 10 THEN <<DigitChar(n)>>
              ELSE Append(Decimal(n \div 10), DigitChar(n % 10))

(* {day} in place of {day:02d}. *)
BadPad2(n) == Decimal(n)

Pad2(n) == IF n < 10 THEN <<"0">> \o Decimal(n) ELSE Decimal(n)

_format_date(y, m, d) == Decimal(y) \o <<"-">> \o Pad2(m) \o <<"-">> \o Pad2(d)

(***************************************************************************)
(* _parse_leave_days.  The --leave-days string is the sequence of its      *)
(* comma-separated tokens, each an integer literal or not; the empty (or   *)
(* blank) string is the empty sequence.                                    *)
(***************************************************************************)
IntToken(n) == [isInt |-> TRUE, val |-> n]
BadToken == [isInt |-> FALSE, val |-> 0]
Tokens == { IntToken(n) : n \in CliDayValues } \cup {BadToken}

RECURSIVE Unique(_, _)
Unique(days, seen) ==
    IF days = <<>> THEN <<>>
    ELSE IF days[1] \in seen THEN Unique(Tail(days), seen)
    ELSE <<days[1]>> \o Unique(Tail(days), seen \cup {days[1]})

(* Result: [err, days]; err is "none" or the ValueError raised. *)
_parse_leave_days(toks) ==
    IF toks = <<>> THEN [err |-> "none", days |-> <<>>]
    ELSE IF \E i \in 1..Len(toks) : ~toks[i].isInt
         THEN [err |-> "InvalidLeaveDaysFormat", days |-> <<>>]
         ELSE [err |-> "none",
               days |-> Unique([i \in 1..Len(toks) |-> toks[i].val], {})]

(***************************************************************************)
(* _validate_leave_days: "none", or the error of the first offending day   *)
(* in list order.                                                          *)
(***************************************************************************)
(* The range of every day is checked before the weekday of any. *)
BadValidateFrom(days, m, y, bds) ==
    IF \E i \in 1..Len(days) : days[i] < 1 \/ days[i] > DaysInMonth(y, m)
    THEN "OutOfRange"
    ELSE IF \E i \in 1..Len(days) : days[i] \notin Range(bds)
         THEN "NotBusinessDayWeekend"
         ELSE "none"

RECURSIVE ValidateFrom(_, _, _, _)
ValidateFrom(days, m, y, bds) ==
    IF days = <<>> THEN "none"
    ELSE LET day == days[1]
         IN  IF day < 1 \/ day > DaysInMonth(y, m) THEN "OutOfRange"
             ELSE IF day \notin Range(bds)
                  THEN IF weekday(y, m, day) >= 5 THEN "NotBusinessDayWeekend"
                       ELSE "NotBusinessDay"
                  ELSE ValidateFrom(Tail(days), m, y, bds)

_validate_leave_days(days, m, y) ==
    IF days = <<>> THEN "none"
    ELSE ValidateFrom(days, m, y, _calculate_business_days(m, y))

(***************************************************************************)
(* The working days of generate_time_sheet.                                *)
(***************************************************************************)
(* Only the first leave day is left out. *)
BadIsWorkingDay(day, days) == days = <<>> \/ day # days[1]

IsWorkingDay(day, days) == day \notin Range(days)

(* [day for day in business_days if day not in leave_days] *)
FilterLeaveDays(bds, days) ==
    LET Keep(d) == IsWorkingDay(d, days) IN SelectSeq(bds, Keep)

(* business_days[n:], the first n days dropped. *)
BadDropLast(bds, n) == SubSeq(bds, n + 1, Len(bds))

(* business_days[:-n] for n > 0 *)
DropLast(bds, n) == SubSeq(bds, 1, Len(bds) - n)

(* business_days[:-n] if n > 0 else business_days *)
TrimLeaveCount(bds, n) == IF n > 0 THEN DropLast(bds, n) ELSE bds

(* len(leave_days) != annual_leave_taken; an int never equals None. *)
CountDiffers(days, alt) == IsNone(alt) \/ Len(days) # Val(alt)

(* Lines 245-262: [err, days]; err is "none", a ValueError kind, or       *)
(* "TypeError" for None > 0.                                               *)
ResolveWorkingDays(bds, alt, ld, m, y) ==
    IF ~IsNone(ld)
    THEN LET days == Val(ld)
             verr == _validate_leave_days(days, m, y)
         IN  IF verr # "none" THEN [err |-> verr, days |-> <<>>]
             ELSE IF CountDiffers(days, alt)
                  THEN [err |-> "CountMismatch", days |-> <<>>]
                  ELSE [err |-> "none", days |-> FilterLeaveDays(bds, days)]
    ELSE IF IsNone(alt) THEN [err |-> "TypeError", days |-> <<>>]
         ELSE [err |-> "none", days |-> TrimLeaveCount(bds, Val(alt))]

(* The count of _validate_working_days: business days minus leave count. *)
SubtractedDaysCount(wbd, bds, alt) == Len(bds) - Val(alt)

(* len(working_business_days), line 262. *)
WorkingDaysCount(wbd, bds, alt) == Len(wbd)

(* working_days < 0 in place of working_days <= 0. *)
BadHasNoWorkingDays(wdays) == wdays < 0

(* working_days <= 0, line 265: TRUE when NoWorkingDays is raised. *)
HasNoWorkingDays(wdays) == wdays <= 0

(* Hours equal to the ceiling are rejected. *)
Strict_validate_hours_distribution(hours, max_hours, wdays) ==
    hours >= wdays * max_hours

(* The ceiling taken one day too high. *)
Bad_validate_hours_distribution(hours, max_hours, wdays) ==
    hours > (wdays + 1) * max_hours

(* _validate_hours_distribution: TRUE when it raises. *)
_validate_hours_distribution(hours, max_hours, wdays) == hours > wdays * max_hours

(***************************************************************************)
(* _calculate_day_hours: [hours, note]; note is TRUE when the final-day    *)
(* adjustment notice is printed.                                           *)
(***************************************************************************)
(* Every day takes all the remaining hours: no even share, no maximum. *)
Bad_calculate_day_hours(remaining, days_remaining, max_hours, is_last_day) ==
    LET dh == round_to_half_hour(remaining, 1)
    IN  [hours |-> dh, note |-> is_last_day /\ dh # remaining]

_calculate_day_hours(remaining, days_remaining, max_hours, is_last_day) ==
    IF is_last_day
    THEN LET dh == round_to_half_hour(remaining, 1)
         IN  [hours |-> dh, note |-> dh # remaining]
    ELSE LET dh == IF remaining <= max_hours * days_remaining
                   THEN round_to_half_hour(remaining, days_remaining)
                   ELSE round_to_half_hour(max_hours, 1)
         IN  [hours |-> dh, note |-> FALSE]

(* Lines 300-302: the day's hours and the remaining hours after the        *)
(* negative-remainder correction; rem is remaining_hours after line 296.   *)
CorrectedDayHours(day_hours, rem) == IF rem < 0 THEN day_hours + rem ELSE day_hours

(* remaining_hours is left negative. *)
UnclampedRemaining(rem) == rem

ClampedRemaining(rem) == IF rem < 0 THEN 0 ELSE rem

(* _verify_total_allocation: TRUE when the warning is printed. *)
Abs(x) == IF x < 0 THEN -x ELSE x

(* The difference without abs: a shortfall is not noticed. *)
Signed_verify_total_allocation(allocated, requested) ==
    allocated - requested > Tolerance

_verify_total_allocation(allocated, requested) ==
    Abs(allocated - requested) > Tolerance

(***************************************************************************)
(* State.                                                                  *)
(*   entry: "cli" for a run of cli.main, "api" for a direct call of        *)
(*     generate_time_sheet (as the tests make).                            *)
(*   args_leave, args_leave_days: --leave and --leave-days of cli.main.    *)
(*   hours_worked .. leave_days: the parameters of generate_time_sheet.    *)
(*   now_year: datetime.datetime.now().year.                               *)
(*   max_hours_worked .. days_left: the locals of generate_time_sheet;     *)
(*     pos is the position of the for loop in working_business_days.       *)
(*   error: "none" or the exception raised; out: the lines printed.        *)
(*   returned: the value returned by generate_time_sheet, once it returns. *)
(***************************************************************************)
VARIABLES pc, entry, args_leave, args_leave_days,
          hours_worked, max_hours_in, annual_leave_taken, month, year,
          leave_days, now_year,
          max_hours_worked, business_days, working_business_days,
          result, remaining_hours, days_left, pos, early_break,
          error, out, returned

inputs == <<entry, args_leave, args_leave_days, hours_worked, max_hours_in,
            month, year, now_year>>
locals == <<max_hours_worked, business_days, working_business_days,
            result, remaining_hours, days_left, pos, early_break>>
vars == <<pc, inputs, annual_leave_taken, leave_days, locals,
          error, out, returned>>

OptCounts == {None} \cup { Some(n) : n \in LeaveCounts }
OptYears == {None} \cup { Some(y) : y \in Years }
(* Leave lists naming every business day of a month. *)
WholeMonthLists ==
    { _calculate_business_days(m, y) : m \in Months, y \in Years \cup NowYears }

InitLocals ==
    /\ max_hours_worked = 0
    /\ business_days = <<>>
    /\ working_business_days = <<>>
    /\ result = <<>>
    /\ remaining_hours = 0
    /\ days_left = 0
    /\ pos = 1
    /\ early_break = FALSE
    /\ error = "none"
    /\ out = <<>>
    /\ returned = None

Init ==
    /\ hours_worked \in HoursValues
    /\ max_hours_in \in MaxHoursValues
    /\ month \in Months
    /\ year \in OptYears
    /\ now_year \in NowYears
    /\ \/ /\ entry = "cli"
          /\ pc = "main"
          /\ args_leave \in OptCounts
          /\ args_leave_days \in
                {None} \cup { Some(t) : t \in SeqsUpTo(Tokens, MaxLeaveList) }
          /\ annual_leave_taken = None
          /\ leave_days = None
       \/ /\ entry = "api"
          /\ pc = "generate"
          /\ args_leave = None
          /\ args_leave_days = None
          /\ annual_leave_taken \in OptCounts
          /\ leave_days \in
                {None} \cup { Some(d) : d \in SeqsUpTo(LeaveDayValues, MaxLeaveList)
                                               \cup WholeMonthLists }
    /\ InitLocals

(* The exception is swallowed: nothing is printed. *)
SilentRaise(kind) ==
    /\ error' = kind
    /\ pc' = "done"
    /\ out' = out
    /\ returned' = returned

(* An exception leaves generate_time_sheet: cli.main catches a ValueError  *)
(* and prints "Error: ..."; anything else is an uncaught crash.            *)
Raise(kind) ==
    /\ error' = kind
    /\ pc' = "done"
    /\ out' = IF entry = "cli" /\ kind # "TypeError"
              THEN Append(out, "Error") ELSE out
    /\ returned' = returned

(* cli.main, lines 52-86: the leave parameters, up to the call. *)
main ==
    /\ pc = "main"
    /\ IF ~IsNone(args_leave_days)
       THEN LET parsed == _parse_leave_days(Val(args_leave_days))
            IN  IF parsed.err # "none"
                THEN /\ Raise(parsed.err)
                     /\ UNCHANGED <<annual_leave_taken, leave_days>>
                ELSE IF ~IsNone(args_leave)
                THEN IF Len(parsed.days) # Val(args_leave)
                     THEN /\ Raise("CountMismatch")
                          /\ UNCHANGED <<annual_leave_taken, leave_days>>
                     ELSE /\ annual_leave_taken' = args_leave
                          /\ leave_days' = Some(parsed.days)
                          /\ pc' = "generate"
                          /\ UNCHANGED <<error, out, returned>>
                ELSE /\ annual_leave_taken' = Some(Len(parsed.days))
                     /\ leave_days' = Some(parsed.days)
                     /\ pc' = "generate"
                     /\ UNCHANGED <<error, out, returned>>
       ELSE IF IsNone(args_leave)
            THEN /\ Raise("MissingLeaveSpec")
                 /\ UNCHANGED <<annual_leave_taken, leave_days>>
            ELSE /\ annual_leave_taken' = args_leave
                 /\ leave_days' = None
                 /\ pc' = "generate"
                 /\ UNCHANGED <<error, out, returned>>
    /\ UNCHANGED <<inputs, locals>>

(* generate_time_sheet, lines 234-279: validation, up to the loop. *)
generate_time_sheet ==
    /\ pc = "generate"
    /\ LET y == IF IsNone(year) THEN now_year ELSE Val(year)
           mx == round_to_half_hour(max_hours_in, 1)
           bds == _calculate_business_days(month, y)
           res == ResolveWorkingDays(bds, annual_leave_taken, leave_days, month, y)
           wdays == WorkingDaysCount(res.days, bds, annual_leave_taken)
       IN  /\ max_hours_worked' = mx
           /\ business_days' = bds
           /\ IF res.err # "none"
              THEN /\ Raise(res.err)
                   /\ UNCHANGED <<working_business_days, remaining_hours, days_left>>
              ELSE /\ working_business_days' = res.days
                   /\ IF HasNoWorkingDays(wdays)
                      THEN /\ Raise("NoWorkingDays")
                           /\ UNCHANGED <<remaining_hours, days_left>>
                      ELSE IF _validate_hours_distribution(hours_worked, mx, wdays)
                      THEN /\ Raise("HoursExceedCapacity")
                           /\ UNCHANGED <<remaining_hours, days_left>>
                      ELSE /\ remaining_hours' = hours_worked
                           /\ days_left' = wdays
                           /\ pc' = IF res.days = <<>> THEN "verify" ELSE "loop"
                           /\ UNCHANGED <<error, out, returned>>
    /\ UNCHANGED <<inputs, annual_leave_taken, leave_days, result, pos, early_break>>

(* generate_time_sheet, lines 281-305: one iteration of the loop. *)
ResolvedYear == IF IsNone(year) THEN now_year ELSE Val(year)

allocate_day ==
    /\ pc = "loop"
    /\ pos <= Len(working_business_days)
    /\ IF days_left <= 0
       THEN /\ early_break' = TRUE
            /\ pc' = "verify"
            /\ UNCHANGED <<result, remaining_hours, days_left, pos, out>>
       ELSE LET day == working_business_days[pos]
                date_str == _format_date(ResolvedYear, month, day)
                is_last_day == (days_left = 1)
                calc == _calculate_day_hours(remaining_hours, days_left,
                                             max_hours_worked, is_last_day)
                rem == remaining_hours - calc.hours
                day_hours == CorrectedDayHours(calc.hours, rem)
            IN  /\ remaining_hours' = ClampedRemaining(rem)
                /\ days_left' = days_left - 1
                /\ result' = Append(result, [date |-> date_str, hours |-> day_hours])
                /\ out' = IF calc.note THEN Append(out, "Note") ELSE out
                /\ pos' = pos + 1
                /\ pc' = IF pos = Len(working_business_days) THEN "verify" ELSE "loop"
                /\ UNCHANGED early_break
    /\ UNCHANGED <<inputs, annual_leave_taken, leave_days, max_hours_worked,
                   business_days, working_business_days, error, returned>>

(* generate_time_sheet, lines 307-311: the total is verified, the result   *)
(* returned.                                                               *)
verify_and_return ==
    /\ pc = "verify"
    /\ out' = IF _verify_total_allocation(SumHours(result), hours_worked)
              THEN Append(out, "Warning") ELSE out
    /\ returned' = Some(result)
    /\ pc' = IF entry = "cli" THEN "print" ELSE "done"
    /\ UNCHANGED <<inputs, annual_leave_taken, leave_days, locals, error>>

(* cli.main, lines 88-97: the time sheet is printed. *)
print_time_sheet ==
    /\ pc = "print"
    /\ out' = out \o <<"Header", "Rule">>
                  \o [i \in 1..Len(Val(returned)) |-> "Entry"]
                  \o <<"Rule", "Total">>
    /\ pc' = "done"
    /\ UNCHANGED <<inputs, annual_leave_taken, leave_days, locals, error, returned>>

Next == main \/ generate_time_sheet \/ allocate_day \/ verify_and_return
        \/ print_time_sheet

Spec == Init /\ [][Next]_vars

(***************************************************************************)
(* Vocabulary of the properties.                                           *)
(***************************************************************************)
Returned == ~IsNone(returned)
Entries == Val(returned)
Finished == pc = "done"
RoundedMax == round_to_half_hour(max_hours_in, 1)
Total == SumHours(Entries)

(* The weekdays of the month, from the calendar alone. *)
BusinessDaySet ==
    { d \in 1..DaysInMonth(ResolvedYear, month) :
        weekday(ResolvedYear, month, d) \in 0..4 }

RECURSIVE Ascending(_)
Ascending(S) ==
    IF S = {} THEN <<>>
    ELSE LET mn == CHOOSE x \in S : \A z \in S : x <= z
         IN  <<mn>> \o Ascending(S \ {mn})

DatesOf(days) == [i \in 1..Len(days) |-> _format_date(ResolvedYear, month, days[i])]
EntryDates == [i \in 1..Len(Entries) |-> Entries[i].date]

(* Order of Python strings made of digits and "-": "-" sorts before "0". *)
CharCode(c) == IF c = "-" THEN 0 ELSE 1 + CHOOSE d \in 0..9 : DigitChar(d) = c

RECURSIVE StrLess(_, _)
StrLess(a, b) ==
    IF b = <<>> THEN FALSE
    ELSE IF a = <<>> THEN TRUE
    ELSE IF a[1] # b[1] THEN CharCode(a[1]) < CharCode(b[1])
    ELSE StrLess(Tail(a), Tail(b))

(* The leave parameters as the caller supplied them, whatever the entry    *)
(* point: the count, and the explicit days (None when absent or when the   *)
(* --leave-days string does not parse).                                    *)
SuppliedCount == IF entry = "cli" THEN args_leave ELSE annual_leave_taken

DaysSupplied == IF entry = "cli" THEN ~IsNone(args_leave_days) ELSE ~IsNone(leave_days)

SuppliedDays ==
    IF entry = "api" THEN leave_days
    ELSE IF IsNone(args_leave_days) THEN None
    ELSE LET toks == Val(args_leave_days)
         IN  IF \E i \in 1..Len(toks) : ~toks[i].isInt THEN None
             ELSE Some([i \in 1..Len(toks) |-> toks[i].val])

DistinctDays == Range(Val(SuppliedDays))

(***************************************************************************)
(* C1.  As claimed: for every successful call with hours_worked >= 0, the  *)
(* sum of the entries' hours differs from hours_worked by at most 0.01.    *)
(***************************************************************************)
C1_SumWithinTolerance ==
    (Returned /\ hours_worked >= 0) => Abs(Total - hours_worked) <= Tolerance

(* C1, amended: for every successful call with hours_worked >= 0, the sum  *)
(* of the entries' hours differs from hours_worked by at most 0.25 (the    *)
(* rounding of the final day) plus the 0.01 tolerance, and by at most 0.01 *)
(* when hours_worked is a multiple of 0.5.                                 *)
C1_SumWithinRounding ==
    (Returned /\ hours_worked >= 0) =>
        /\ Abs(Total - hours_worked) <= (HalfHour \div 2) + Tolerance
        /\ (hours_worked % HalfHour = 0) => Abs(Total - hours_worked) <= Tolerance

(* C1 witness: a call over several days returns a quarter of an hour less  *)
(* than requested.                                                         *)
C1_Witness ==
    /\ Returned
    /\ hours_worked >= 0
    /\ Len(Entries) >= 2
    /\ hours_worked - Total = HalfHour \div 2

(***************************************************************************)
(* C2.  For every successful call (here with hours_worked >= 0), every     *)
(* returned entry's hours are a multiple of 0.5, the entry reduced by the  *)
(* negative-remainder correction included.                                 *)
(***************************************************************************)
C2_HalfHourMultiples ==
    (Returned /\ hours_worked >= 0) =>
        \A i \in 1..Len(Entries) : Entries[i].hours % HalfHour = 0

(***************************************************************************)
(* C3.  For every successful call, every returned entry other than the     *)
(* last has hours <= round_to_half_hour(max_hours_worked).                 *)
(***************************************************************************)
C3_NonFinalWithinMax ==
    Returned => \A i \in 1..(Len(Entries) - 1) : Entries[i].hours <= RoundedMax

(* C3 witness: a maximum that is rounded down (0.7 to 0.5) is reached by   *)
(* an entry that is not the last.                                          *)
C3_Witness ==
    /\ Returned
    /\ Len(Entries) >= 2
    /\ RoundedMax < max_hours_in
    /\ Entries[1].hours = RoundedMax

(***************************************************************************)
(* C4.  For every successful call with hours_worked >= 0, every returned   *)
(* entry, the last one included, has hours <= the rounded maximum.         *)
(***************************************************************************)
C4_AllWithinMax ==
    (Returned /\ hours_worked >= 0) =>
        \A i \in 1..Len(Entries) : Entries[i].hours <= RoundedMax

(* C4 witness: the hours equal the ceiling W * rounded max, and the last   *)
(* of several entries gets exactly the maximum.                            *)
C4_Witness ==
    /\ Returned
    /\ Len(Entries) >= 2
    /\ RoundedMax > 0
    /\ hours_worked = Len(Entries) * RoundedMax
    /\ Entries[Len(Entries)].hours = RoundedMax

(***************************************************************************)
(* C5.  For every successful call there is exactly one entry per working   *)
(* day, in working-day order: as many entries as working days, and dates   *)
(* strictly increasing (as strings).                                       *)
(***************************************************************************)
C5_OneEntryPerDayAscending ==
    Returned =>
        /\ Len(Entries) = Len(working_business_days)
        /\ EntryDates = DatesOf(working_business_days)
        /\ \A i \in 1..(Len(Entries) - 1) :
              StrLess(Entries[i].date, Entries[i + 1].date)

(* C5 witness: a time sheet of the whole month, with one-digit and         *)
(* two-digit days.                                                         *)
C5_Witness ==
    /\ Returned
    /\ Len(Entries) = Cardinality(BusinessDaySet)
    /\ Len(Entries) > 20

(***************************************************************************)
(* C6.  With only a leave count N >= 0 (leave_days is None), the working   *)
(* days are the business days of the month without their last N (none when *)
(* N >= the number of business days), and a successful result has B - N    *)
(* entries, dated on the first B - N business days.                        *)
(***************************************************************************)
FirstBusinessDays(n) ==
    LET all == Ascending(BusinessDaySet)
    IN  SubSeq(all, 1, IF n > Len(all) THEN 0 ELSE Len(all) - n)

C6_CountOnlyDropsTrailing ==
    (/\ pc \notin {"main", "generate"}
     /\ IsNone(leave_days) /\ ~IsNone(annual_leave_taken)
     /\ Val(annual_leave_taken) >= 0) =>
        /\ working_business_days = FirstBusinessDays(Val(annual_leave_taken))
        /\ Returned =>
              /\ Len(Entries) = Cardinality(BusinessDaySet) - Val(annual_leave_taken)
              /\ EntryDates = DatesOf(FirstBusinessDays(Val(annual_leave_taken)))

(* C6 witness: a successful call with a positive leave count and no        *)
(* explicit days.                                                          *)
C6_Witness ==
    /\ Returned
    /\ IsNone(leave_days)
    /\ Val(annual_leave_taken) > 0
    /\ Len(Entries) = Cardinality(BusinessDaySet) - Val(annual_leave_taken)

(***************************************************************************)
(* C7.  With a valid explicit leave-day list, the working days are the     *)
(* business days not in the list, ascending: a successful result has no    *)
(* entry on a leave day and an entry for every other business day.         *)
(***************************************************************************)
C7_ExplicitLeaveExcluded ==
    (Returned /\ ~IsNone(leave_days)) =>
        LET leave == Range(Val(leave_days))
        IN  /\ working_business_days = Ascending(BusinessDaySet \ leave)
            /\ EntryDates = DatesOf(Ascending(BusinessDaySet \ leave))
            /\ \A d \in leave :
                  _format_date(ResolvedYear, month, d) \notin Range(EntryDates)

(* C7 witness: a successful call with two different leave days. *)
C7_Witness ==
    /\ Returned
    /\ ~IsNone(leave_days)
    /\ Cardinality(Range(Val(leave_days))) = 2
    /\ Len(Entries) = Cardinality(BusinessDaySet) - 2

(***************************************************************************)
(* C8.  With both a leave count and explicit leave days (business days of  *)
(* the month), the call fails with CountMismatch if and only if the count  *)
(* differs from the number of distinct explicit days.                      *)
(***************************************************************************)
C8_CountMismatchIffDistinctDiffers ==
    (/\ Finished
     /\ ~IsNone(SuppliedCount) /\ ~IsNone(SuppliedDays)
     /\ DistinctDays \subseteq BusinessDaySet) =>
        (error = "CountMismatch" <=> Val(SuppliedCount) # Cardinality(DistinctDays))

(***************************************************************************)
(* C9.  With explicit leave days and no leave count, the call does not     *)
(* fail with CountMismatch, and with valid days and feasible hours it      *)
(* returns the allocation over the business days minus the leave days.     *)
(***************************************************************************)
C9_AbsentCountAccepted ==
    (Finished /\ IsNone(SuppliedCount) /\ ~IsNone(SuppliedDays)) =>
        /\ error # "CountMismatch"
        /\ (DistinctDays \subseteq BusinessDaySet
            /\ error \notin {"NoWorkingDays", "HoursExceedCapacity"}) =>
              /\ Returned
              /\ EntryDates = DatesOf(Ascending(BusinessDaySet \ DistinctDays))

(***************************************************************************)
(* C10.  With neither a leave count nor explicit leave days, the call      *)
(* fails with the MissingLeaveSpec validation error and produces no time   *)
(* sheet.                                                                  *)
(***************************************************************************)
C10_MissingLeaveSpecReported ==
    (Finished /\ IsNone(SuppliedCount) /\ ~DaysSupplied) =>
        (error = "MissingLeaveSpec" /\ ~Returned)

(***************************************************************************)
(* C11.  Every explicit leave day is validated against the month: the call *)
(* fails with OutOfRange for a day < 1 or > days-in-month, with the        *)
(* weekend error for an in-range Saturday or Sunday, and passes validation *)
(* exactly when every listed day is a business day; the error is that of   *)
(* the first offending day in list order.                                  *)
(***************************************************************************)
ValidationErrors == {"OutOfRange", "NotBusinessDayWeekend", "NotBusinessDay"}

ExpectedDayError(d) ==
    IF d < 1 \/ d > DaysInMonth(ResolvedYear, month) THEN "OutOfRange"
    ELSE IF weekday(ResolvedYear, month, d) \in {5, 6} THEN "NotBusinessDayWeekend"
    ELSE "none"

Offending(days) == { i \in 1..Len(days) : ExpectedDayError(days[i]) # "none" }

FirstOffending(days) == CHOOSE i \in Offending(days) : \A j \in Offending(days) : i <= j

C11_LeaveDaysValidated ==
    (pc \notin {"main", "generate"} /\ ~IsNone(leave_days)) =>
        LET days == Val(leave_days)
        IN  /\ (error \notin ValidationErrors) <=> (Range(days) \subseteq BusinessDaySet)
            /\ Offending(days) # {} =>
                  error = ExpectedDayError(days[FirstOffending(days)])

(* C11 witness: a Saturday listed before a day outside the month           *)
(* is reported as a weekend.                                               *)
C11_Witness ==
    /\ Finished
    /\ ~IsNone(leave_days)
    /\ Len(Val(leave_days)) = 2
    /\ ExpectedDayError(Val(leave_days)[1]) = "NotBusinessDayWeekend"
    /\ ExpectedDayError(Val(leave_days)[2]) = "OutOfRange"
    /\ error = "NotBusinessDayWeekend"

(***************************************************************************)
(* C12.  Whenever the number of working days left after removing leave is  *)
(* <= 0, the call fails with NoWorkingDays, whatever the hours, and the    *)
(* allocation never runs over an empty working-day sequence.               *)
(***************************************************************************)
(* Errors raised before the working days are counted. *)
LeaveErrors == ValidationErrors \cup
    {"InvalidLeaveDaysFormat", "MissingLeaveSpec", "CountMismatch", "TypeError"}

ReachedWorkingDays == pc \notin {"main", "generate"} /\ error \notin LeaveErrors

(* The working-day count, from the calendar and the leave parameters. *)
ExpectedWorkingDays ==
    IF IsNone(leave_days) THEN Cardinality(BusinessDaySet) - Val(annual_leave_taken)
    ELSE Cardinality(BusinessDaySet \ Range(Val(leave_days)))

C12_NoWorkingDaysGate ==
    /\ (ReachedWorkingDays /\ ExpectedWorkingDays <= 0) =>
          (error = "NoWorkingDays" /\ result = <<>> /\ ~Returned)
    /\ (pc \in {"loop", "verify", "print"} \/ Returned) => working_business_days # <<>>

(* C12 witness: every business day is an explicit leave day and no hours   *)
(* are requested.                                                          *)
C12_Witness ==
    /\ Finished
    /\ ~IsNone(leave_days)
    /\ Range(Val(leave_days)) = BusinessDaySet
    /\ hours_worked = 0
    /\ error = "NoWorkingDays"

(***************************************************************************)
(* C13.  With at least one working day, the call fails with                *)
(* HoursExceedCapacity if and only if hours_worked > W * the rounded       *)
(* maximum; hours equal to that ceiling are accepted.                      *)
(***************************************************************************)
ReachedCapacity == ReachedWorkingDays /\ error # "NoWorkingDays"

C13_CapacityCeiling ==
    ReachedCapacity =>
        (error = "HoursExceedCapacity"
            <=> hours_worked > ExpectedWorkingDays * RoundedMax)

(* C13 witness: hours that the maximum as given (0.7) would allow are      *)
(* rejected against the rounded maximum (0.5).                             *)
C13_Witness ==
    /\ Finished
    /\ error = "HoursExceedCapacity"
    /\ RoundedMax > 0
    /\ hours_worked <= ExpectedWorkingDays * max_hours_in

(***************************************************************************)
(* C14.  Every validation failure is detected before any allocation step:  *)
(* on any error no entries are returned and no notice is printed, and the  *)
(* command line prints exactly one "Error: ..." line and no time sheet.    *)
(***************************************************************************)
C14_FailureBeforeAllocation ==
    (error # "none") =>
        /\ Finished
        /\ ~Returned
        /\ result = <<>> /\ pos = 1
        /\ "Note" \notin Range(out) /\ "Warning" \notin Range(out)
        /\ (entry = "cli") => (out = <<"Error">>)

(* C14 witness: the command line reports hours above the capacity. *)
C14_Witness ==
    /\ entry = "cli"
    /\ error = "HoursExceedCapacity"
    /\ out = <<"Error">>

(***************************************************************************)
(* C15.  In every successful call (here with hours_worked >= 0), the hours *)
(* returned for the final working day equal round_half(remaining_hours),   *)
(* remaining_hours being hours_worked minus the hours returned for all     *)
(* earlier days.                                                           *)
(***************************************************************************)
EarlierTotal == SumHours(SubSeq(Entries, 1, Len(Entries) - 1))

C15_FinalDayIsRoundedRemainder ==
    (Returned /\ hours_worked >= 0) =>
        Entries[Len(Entries)].hours =
            round_to_half_hour(hours_worked - EarlierTotal, 1)

(***************************************************************************)
(* C16.  For hours_worked >= 0, no appended entry has negative hours and   *)
(* remaining_hours is >= 0 after every iteration; when the correction      *)
(* fires, the day's hours are reduced by exactly the overshoot and         *)
(* remaining_hours becomes 0.                                              *)
(***************************************************************************)
(* The latest iteration, from the state after it: the hours remaining      *)
(* before it, what _calculate_day_hours gave, and the overshoot.           *)
RemainingBeforeLast == hours_worked - SumHours(SubSeq(result, 1, Len(result) - 1))

LastCalculated ==
    _calculate_day_hours(RemainingBeforeLast, days_left + 1, max_hours_worked,
                         days_left + 1 = 1).hours

LastOvershoot == LastCalculated - RemainingBeforeLast

C16_NoNegativeHours ==
    (hours_worked >= 0 /\ result # <<>>) =>
        /\ remaining_hours >= 0
        /\ \A i \in 1..Len(result) : result[i].hours >= 0
        /\ IF LastOvershoot > 0
           THEN /\ result[Len(result)].hours = LastCalculated - LastOvershoot
                /\ remaining_hours = 0
           ELSE /\ result[Len(result)].hours = LastCalculated
                /\ remaining_hours = -LastOvershoot

(* C16 witness: the correction fires on the last of several days. *)
C16_Witness ==
    /\ hours_worked >= 0
    /\ Len(result) >= 2
    /\ LastOvershoot > 0
    /\ remaining_hours = 0

(***************************************************************************)
(* C17.  Once validation has passed, the loop ends after exactly W         *)
(* iterations (W the working-day count): days_left starts at W, decreases  *)
(* by one per appended entry, reaches 0 exactly when the working days are  *)
(* exhausted, no day is visited twice, and the early exit on               *)
(* days_left <= 0 is never taken.  While the loop runs, its next iteration *)
(* is always possible, and days_left bounds the iterations left.           *)
(***************************************************************************)
C17_LoopRunsWTimes ==
    (pc \in {"loop", "verify", "print"} \/ Returned) =>
        LET W == ExpectedWorkingDays
        IN  /\ Len(working_business_days) = W
            /\ days_left = W - Len(result)
            /\ pos = Len(result) + 1
            /\ ~early_break
            /\ Cardinality({ result[i].date : i \in 1..Len(result) }) = Len(result)
            /\ IF pc = "loop"
               THEN days_left >= 1 /\ ENABLED allocate_day
               ELSE days_left = 0 /\ Len(result) = W

(* C17 witness: the loop has just ended after the 23 working days of a     *)
(* whole month.                                                            *)
C17_Witness ==
    /\ pc = "verify"
    /\ days_left = 0
    /\ Len(result) = Cardinality(BusinessDaySet)
    /\ pos = Len(working_business_days) + 1

(***************************************************************************)
(* C18.  After all entries are built, the total-mismatch notice is printed *)
(* if and only if |total allocated - hours_worked| > 0.01; a notice        *)
(* (total-mismatch or final-day rounding) never raises and never changes   *)
(* the returned entries.                                                   *)
(***************************************************************************)
Count(s, x) == Cardinality({ i \in 1..Len(s) : s[i] = x })

C18_MismatchNoticed ==
    Returned =>
        /\ Count(out, "Warning") =
              (IF Abs(Total - hours_worked) > Tolerance THEN 1 ELSE 0)
        /\ Count(out, "Note") <= 1
        /\ error = "none"
        /\ Entries = result

(* C18 witness: a call over several days prints both notices and returns   *)
(* its entries.                                                            *)
C18_Witness ==
    /\ Returned
    /\ Len(Entries) >= 2
    /\ Count(out, "Warning") = 1
    /\ Count(out, "Note") = 1
    /\ Entries = result

(***************************************************************************)
(* C19.  For hours_worked >= 0 the total of the returned entries never     *)
(* exceeds hours_worked and falls short of it by at most 0.25: when the    *)
(* final day would round up, the correction gives it exactly the unrounded *)
(* remainder and the total equals hours_worked; the total deviates only    *)
(* when the final day rounds down.                                         *)
(***************************************************************************)
FinalRemainder == hours_worked - EarlierTotal

C19_TotalNeverExceeds ==
    (Returned /\ hours_worked >= 0) =>
        LET rounded == round_to_half_hour(FinalRemainder, 1)
            last == Entries[Len(Entries)].hours
        IN  /\ Total <= hours_worked
            /\ hours_worked - Total <= HalfHour \div 2
            /\ IF rounded >= FinalRemainder
               THEN last = FinalRemainder /\ Total = hours_worked
               ELSE last = rounded /\ hours_worked - Total = FinalRemainder - rounded

(* C19 witness: the final of several days would round up and receives the  *)
(* unrounded remainder, so the total is exact.                             *)
C19_Witness ==
    /\ Returned
    /\ hours_worked >= 0
    /\ Len(Entries) >= 2
    /\ round_to_half_hour(FinalRemainder, 1) > FinalRemainder
    /\ Entries[Len(Entries)].hours = FinalRemainder
    /\ Total = hours_worked

====
